---------------------------- MODULE Spec2Model ----------------------------
(***************************************************************************)
(* The two relay services gh_interacter (GitHub) and gl_interacter         *)
(* (GitLab): the API-key gate, the main/master branch probe, the five      *)
(* endpoint handlers of each service, and the upstream calls they issue.   *)
(*                                                                         *)
(* A handler is one action.  The provider is the environment: every        *)
(* upstream call a handler issues may return any response of a bounded     *)
(* set, so a handler is modelled by the set of its possible runs, each run *)
(* being the sequence of upstream calls issued (with what came back) and   *)
(* the reply the handler ends with.                                        *)
(***************************************************************************)
EXTENDS Integers, Sequences, FiniteSets

VARIABLES svc,            \* which service this process is: "gh" or "gl"
          RHINO_API_KEY,  \* os.getenv("RHINO_API_KEY"), read at import
          token,          \* GITHUB_TOKEN / GITLAB_PRIVATE_TOKEN in the environment
          req,            \* the request being served
          calls,          \* upstream calls issued for it, in order
          resp            \* the reply it ended with

vars == <<svc, RHINO_API_KEY, token, req, calls, resp>>

---------------------------------------------------------------------------
(* Optional strings.  A Python value that is None or a str is a record;    *)
(* a str is the sequence of its characters.                                *)

Absent == [set |-> FALSE, v |-> <<>>]
Str(s) == [set |-> TRUE, v |-> s]

\* Python truthiness of None-or-str: `if x` / `not x`.
Truthy(x) == x.set /\ x.v /= <<>>

---------------------------------------------------------------------------
(* Bounds of the model.                                                    *)

MaxPayloadLen == 4     \* characters of a base64 `content` payload
MaxTree == 2           \* entries of a provider tree listing

---------------------------------------------------------------------------
(* base64.b64decode(s) as binascii.a2b_base64 computes it (non-strict):    *)
(* a payload is a sequence of sextet values 0..63 and PAD.                 *)

PAD == 64
Sextets == {12, 26, 58}    \* 'M', 'a', '6'

DecodeFail == [ok |-> FALSE, v |-> <<>>]
DecodeOk(x) == [ok |-> TRUE, v |-> x]

RECURSIVE a2b_base64(_, _, _, _, _, _)
a2b_base64(s, i, quad_pos, leftchar, pads, out) ==
  IF i > Len(s)
  THEN IF quad_pos /= 0 THEN DecodeFail   \* binascii.Error: incorrect padding
                        ELSE DecodeOk(out)
  ELSE IF s[i] = PAD
  THEN IF quad_pos >= 2 /\ quad_pos + pads + 1 >= 4
       THEN DecodeOk(out)                 \* a complete pad ends the parse
       ELSE a2b_base64(s, i + 1, quad_pos, leftchar,
                       IF quad_pos >= 2 THEN pads + 1 ELSE pads, out)
  ELSE CASE quad_pos = 0 -> a2b_base64(s, i + 1, 1, s[i], 0, out)
         [] quad_pos = 1 -> a2b_base64(s, i + 1, 2, s[i] % 16, 0,
                                       Append(out, leftchar * 4 + (s[i] \div 16)))
         [] quad_pos = 2 -> a2b_base64(s, i + 1, 3, s[i] % 4, 0,
                                       Append(out, leftchar * 16 + (s[i] \div 4)))
         [] quad_pos = 3 -> a2b_base64(s, i + 1, 0, 0, 0,
                                       Append(out, leftchar * 64 + s[i]))

b64decode(s) == a2b_base64(s, 1, 0, 0, 0, <<>>)

(* bytes.decode('utf-8'), strict: the code points, or UnicodeDecodeError.  *)

Cont(b) == b >= 128 /\ b <= 191

Drop(s, n) == SubSeq(s, n + 1, Len(s))

RECURSIVE utf8_decode(_, _)
utf8_decode(b, out) ==
  IF b = <<>> THEN DecodeOk(out)
  ELSE LET c == b[1] IN
    IF c < 128 THEN utf8_decode(Drop(b, 1), Append(out, c))
    ELSE IF /\ c >= 194 /\ c <= 223
            /\ Len(b) >= 2 /\ Cont(b[2])
    THEN utf8_decode(Drop(b, 2), Append(out, (c - 192) * 64 + (b[2] - 128)))
    ELSE IF /\ c >= 224 /\ c <= 239
            /\ Len(b) >= 3 /\ Cont(b[2]) /\ Cont(b[3])
            /\ (c = 224 => b[2] >= 160)      \* no overlong form
            /\ (c = 237 => b[2] <= 159)      \* no surrogate
    THEN utf8_decode(Drop(b, 3),
           Append(out, (c - 224) * 4096 + (b[2] - 128) * 64 + (b[3] - 128)))
    ELSE IF /\ c >= 240 /\ c <= 244
            /\ Len(b) >= 4 /\ Cont(b[2]) /\ Cont(b[3]) /\ Cont(b[4])
            /\ (c = 240 => b[2] >= 144)
            /\ (c = 244 => b[2] <= 143)
    THEN utf8_decode(Drop(b, 4),
           Append(out, (c - 240) * 262144 + (b[2] - 128) * 4096
                       + (b[3] - 128) * 64 + (b[4] - 128)))
    ELSE DecodeFail

\* the bytes decoded with a one-byte codec instead
decode_latin1(b) == DecodeOk(b)

decode_utf8(b) == utf8_decode(b, <<>>)

---------------------------------------------------------------------------
(* Inputs: configuration values, request parameters.                       *)

Keys == {Absent, Str(<<>>), Str(<<"k">>)}
Headers == Keys \cup {Str(<<"x">>)}
Tokens == {Absent, Str(<<>>), Str(<<"t">>)}

\* repo_full_name / project_id
Repos == {Absent, Str(<<>>), Str(<<"a">>), Str(<<"a", "/", "b">>),
          Str(<<"a", "/", "b", "/", "c">>)}
\* pr_number / mr_iid / issue_number / issue_iid
Nums == {Absent, Str(<<>>), Str(<<"7">>)}
Paths == {Absent, Str(<<>>), Str(<<"f">>)}
Branches == {Absent, Str(<<>>), Str(<<"d", "e", "v">>)}
Comments == {Absent, Str(<<>>), Str(<<"c">>)}

MAIN == Str(<<"m", "a", "i", "n">>)
MASTER == Str(<<"m", "a", "s", "t", "e", "r">>)

Request(e, h, repo, num, path, branch, comment) ==
  [endpoint |-> e, apikey |-> h, repo |-> repo, num |-> num,
   file_path |-> path, branch |-> branch, comment |-> comment]

NoReq == Request("none", Absent, Absent, Absent, Absent, Absent, Absent)

---------------------------------------------------------------------------
(* What the provider may answer.  A body is what the handlers read of it:  *)
(* whether response.json() parses, the `content` field (GitHub contents)   *)
(* or response.text (GitLab raw file), the `sha` field, the tree entries.  *)

Statuses == {200, 201, 404, 500}

Body(j, content, sha, tree) ==
  [json |-> j, content |-> content, sha |-> sha, tree |-> tree]
Plain(j) == Body(j, Absent, Absent, <<>>)

Upstream(s, b) == [status |-> s, body |-> b]

RECURSIVE SeqsUpTo(_, _)
SeqsUpTo(S, n) ==
  IF n = 0 THEN {<<>>}
  ELSE LET P == SeqsUpTo(S, n - 1)
       IN P \cup {Append(p, c) : p \in {q \in P : Len(q) = n - 1}, c \in S}

Payloads == SeqsUpTo(Sextets \cup {PAD}, MaxPayloadLen)

EntryTypes == {"tree", "blob", "commit"}
EntryPaths == {"p", "q"}
Trees == SeqsUpTo([type : EntryTypes, path : EntryPaths], MaxTree)

Texts == {<<>>, <<104, 105>>}

Probes == {Upstream(s, Plain(TRUE)) : s \in Statuses}
Resources == {Upstream(s, Plain(j)) : s \in Statuses, j \in BOOLEAN}
Diffs == {Upstream(s, Plain(FALSE)) : s \in Statuses}
Created == {Upstream(s, Plain(TRUE)) : s \in Statuses}
Contents ==
  {Upstream(s, Plain(TRUE)) : s \in Statuses \ {200}}
    \cup {Upstream(200, Plain(FALSE)), Upstream(200, Plain(TRUE))}
    \cup {Upstream(200, Body(TRUE, Str(p), Absent, <<>>)) : p \in Payloads}
RawFiles ==
  {Upstream(s, Plain(TRUE)) : s \in Statuses \ {200}}
    \cup {Upstream(200, Body(FALSE, Str(t), Absent, <<>>)) : t \in Texts}
Commits ==
  Resources
    \cup {Upstream(200, Body(TRUE, Absent, sha, <<>>)) : sha \in {Str(<<>>), Str(<<"s">>)}}
GitTrees ==
  {Upstream(s, Plain(j)) : s \in Statuses \ {200}, j \in BOOLEAN}
    \cup {Upstream(200, Plain(FALSE))}
    \cup {Upstream(200, Body(TRUE, Absent, Absent, t)) : t \in Trees}

---------------------------------------------------------------------------
(* Upstream calls and replies.                                             *)

\* requests.get / requests.post: the call as issued and what came back.
\* `auth` is the token put in the Authorization / Private-Token header,
\* `ref` the branch the URL names (Absent when it names none).
Call(op, method, ref, r) ==
  [op |-> op, method |-> method, auth |-> token, ref |-> ref,
   status |-> r.status, body |-> r.body]

Reply(kind, status, keys, code, message, content, dirs, files) ==
  [kind |-> kind, status |-> status, keys |-> keys, code |-> code,
   message |-> message, content |-> content,
   directories |-> dirs, files |-> files]

NoResp == Reply("none", 0, {}, 0, "", Absent, <<>>, <<>>)

\* jsonify({'code': c, 'message': m}), c
Error(c, m) == Reply("json", c, {"code", "message"}, c, m, Absent, <<>>, <<>>)
\* jsonify({'code': c, 'message': m, 'details': ...}), c
ErrorDetails(c, m) ==
  Reply("json", c, {"code", "message", "details"}, c, m, Absent, <<>>, <<>>)
\* jsonify({...}) with the given fields, status 200
Success(keys) == Reply("json", 200, keys, 0, "", Absent, <<>>, <<>>)
\* abort(401): werkzeug's Unauthorized, an HTML error page
Abort(c) == Reply("abort", c, {}, 0, "", Absent, <<>>, <<>>)
\* an exception no handler catches: Flask's 500 page
Fault == Reply("fault", 500, {}, 0, "", Absent, <<>>, <<>>)

Run(cs, r) == [calls |-> cs, resp |-> r]

---------------------------------------------------------------------------
(* Shared pieces of both services.                                         *)

\* the gate without its test that the header is non-empty
require_api_key_equal_only(r, view) ==
  IF r.apikey = RHINO_API_KEY
  THEN view
  ELSE {Run(<<>>, Abort(401))}

\* The decorator: the view runs only behind a matching, non-empty header.
require_api_key(r, view) ==
  IF Truthy(r.apikey) /\ r.apikey = RHINO_API_KEY
  THEN view
  ELSE {Run(<<>>, Abort(401))}

\* One probe of the branch lookup: the call, and `status_code == 200`.
check_branch_exists(branch_name) ==
  {[call |-> Call("branch", "GET", branch_name, p), exists |-> p.status = 200]
     : p \in Probes}

Resolved(cs, found, branch) == [calls |-> cs, found |-> found, branch |-> branch]

\* the resolution with both probes issued up front
ResolveBranch_eager(branch_name) ==
  IF Truthy(branch_name)
  THEN {Resolved(<<>>, TRUE, branch_name)}
  ELSE {IF m.exists
        THEN Resolved(<<m.call, ms.call>>, TRUE, MAIN)
        ELSE IF ms.exists
        THEN Resolved(<<m.call, ms.call>>, TRUE, MASTER)
        ELSE Resolved(<<m.call, ms.call>>, FALSE, branch_name)
          : m \in check_branch_exists(MAIN), ms \in check_branch_exists(MASTER)}

\* `if not branch_name:` main, elif master, else 404 -- the same block in
\* file_content and repo_structure of both services.
ResolveBranch(branch_name) ==
  IF Truthy(branch_name)
  THEN {Resolved(<<>>, TRUE, branch_name)}
  ELSE UNION {
         IF m.exists
         THEN {Resolved(<<m.call>>, TRUE, MAIN)}
         ELSE {IF ms.exists
               THEN Resolved(<<m.call, ms.call>>, TRUE, MASTER)
               ELSE Resolved(<<m.call, ms.call>>, FALSE, branch_name)
                 : ms \in check_branch_exists(MASTER)}
           : m \in check_branch_exists(MAIN)}

NoBranch(b) == Run(b.calls, Error(404, "No main or master branch found"))

\* the status test taking every status below 400 for a success
upstream_failed_4xx(status) == status >= 400

\* `if response.status_code != 200` of the GET handlers
upstream_failed(status) == status /= 200

\* the status test taking any 2xx for a created comment
comment_failed_2xx(status) == status < 200 \/ status >= 300

\* `if response.status_code != 201` of comment submission
comment_failed(status) == status /= 201

\* the file test as a plain `else`
is_file_else(item) == item.type /= "tree"

\* the item tests of the repository-structure loop
is_directory(item) == item.type = "tree"
is_file(item) == item.type = "blob"

RECURSIVE partition(_, _, _, _)
partition(items, i, directories, files) ==
  IF i > Len(items)
  THEN [directories |-> directories, files |-> files]
  ELSE IF is_directory(items[i])
  THEN partition(items, i + 1, Append(directories, items[i].path), files)
  ELSE IF is_file(items[i])
  THEN partition(items, i + 1, directories, Append(files, items[i].path))
  ELSE partition(items, i + 1, directories, files)

\* jsonify(repo_structure)
Structure(items) ==
  LET rs == partition(items, 1, <<>>, <<>>)
  IN Reply("json", 200, {"directories", "files"}, 0, "", Absent,
           rs.directories, rs.files)

RECURSIVE Count(_, _)
Count(s, ch) ==
  IF s = <<>> THEN 0
  ELSE (IF s[1] = ch THEN 1 ELSE 0) + Count(Tail(s), ch)

\* len(s.split('/'))
SplitLen(s) == Count(s, "/") + 1

---------------------------------------------------------------------------
(* gh_interacter: the views.  Each is the set of runs of the view on       *)
(* request r.                                                              *)

gh_get_pr_content(r) ==
  IF ~Truthy(r.repo) \/ ~Truthy(r.num)
  THEN {Run(<<>>, Error(400, "Missing repo_full_name or pr_number"))}
  ELSE UNION {
    LET c1 == Call("pull", "GET", Absent, a) IN
    IF a.status = 404
    THEN {Run(<<c1>>, Error(404, "Pull Request not found"))}
    ELSE IF upstream_failed(a.status)
    THEN {Run(<<c1>>, Error(a.status, "Unexpected error occurred"))}
    ELSE {LET c2 == Call("pull.diff", "GET", Absent, d) IN
          IF upstream_failed(d.status)
          THEN Run(<<c1, c2>>, Error(d.status, "Failed to get PR diff"))
          ELSE IF ~a.body.json
          THEN Run(<<c1, c2>>, Fault)          \* response.json() raises
          ELSE Run(<<c1, c2>>,
                   Success({"title", "body", "source_branch", "source_repo",
                            "code_changes"}))
            : d \in Diffs}
      : a \in Resources}

\* the tail of file_content: decode the `content` field of a 200 reply
gh_decode_content(cs, f) ==
  IF ~f.body.json
  THEN Run(cs, Fault)                          \* response.json() raises
  ELSE IF ~f.body.content.set
  THEN Run(cs, Error(500, "No content found in the response"))
  ELSE LET raw == b64decode(f.body.content.v) IN
       IF ~raw.ok
       THEN Run(cs, Fault)                     \* binascii.Error is not caught
       ELSE LET text == decode_utf8(raw.v) IN
            IF text.ok
            THEN Run(cs, Reply("json", 200, {"content"}, 0, "", Str(text.v),
                               <<>>, <<>>))
            ELSE Run(cs, Reply("json", 500, {"error"}, 0, "", Absent,
                               <<>>, <<>>))

gh_get_file_content(r) ==
  UNION {
    IF ~b.found
    THEN {NoBranch(b)}
    ELSE IF ~Truthy(r.repo) \/ ~Truthy(r.file_path)
    THEN {Run(b.calls, Error(400, "Missing repo_full_name or file_path"))}
    ELSE {LET cs == Append(b.calls, Call("contents", "GET", b.branch, f)) IN
          IF upstream_failed(f.status)
          THEN Run(cs, Error(f.status, "Failed to fetch file content from branch"))
          ELSE gh_decode_content(cs, f)
            : f \in Contents}
      : b \in ResolveBranch(r.branch)}

gh_get_issue_info(r) ==
  IF ~Truthy(r.repo) \/ ~Truthy(r.num)
  THEN {Run(<<>>, Error(400, "Missing repo_full_name or issue_number"))}
  ELSE {LET cs == <<Call("issue", "GET", Absent, a)>> IN
        IF upstream_failed(a.status)
        THEN Run(cs, Error(a.status, "Failed to fetch issue info"))
        ELSE IF ~a.body.json
        THEN Run(cs, Fault)
        ELSE Run(cs, Success({"title", "description"}))
          : a \in Resources}

gh_submit_pr_comment(r) ==
  IF ~Truthy(token)
  THEN {Run(<<>>, Error(401, "GitHub access token is not set"))}
  ELSE IF ~Truthy(r.repo) \/ ~Truthy(r.num) \/ ~Truthy(r.comment)
  THEN {Run(<<>>, Error(400, "Missing required parameters"))}
  ELSE {LET cs == <<Call("comment", "POST", Absent, a)>> IN
        IF comment_failed(a.status)
        THEN Run(cs, Error(a.status, "Failed to create comment"))
        ELSE Run(cs, Reply("json", 201, {"message"}, 0,
                           "Comment created successfully", Absent, <<>>, <<>>))
          : a \in Created}

\* the tail of repo_structure: the tree fetch by the commit's sha
gh_fetch_tree(cs0) ==
  {LET cs == Append(cs0, Call("tree", "GET", Absent, t)) IN
   IF upstream_failed(t.status)
   THEN IF t.body.json
        THEN Run(cs, ErrorDetails(t.status, "Failed to get repository tree"))
        ELSE Run(cs, Fault)                    \* 'details': response.json()
   ELSE IF ~t.body.json
   THEN Run(cs, Fault)
   ELSE Run(cs, Structure(t.body.tree))
     : t \in GitTrees}

gh_get_repo_structure(r) ==
  UNION {
    IF ~b.found
    THEN {NoBranch(b)}
    ELSE IF ~Truthy(r.repo) \/ Count(r.repo.v, "/") = 0 \/ SplitLen(r.repo.v) /= 2
    THEN {Run(b.calls, Error(400, "Invalid or missing repo_full_name"))}
    ELSE UNION {
      LET cs == Append(b.calls, Call("commit", "GET", b.branch, c)) IN
      IF upstream_failed(c.status)
      THEN IF c.body.json
           THEN {Run(cs, ErrorDetails(c.status, "Failed to get latest commit"))}
           ELSE {Run(cs, Fault)}               \* 'details': response.json()
      ELSE IF ~c.body.json
      THEN {Run(cs, Fault)}
      ELSE IF ~Truthy(c.body.sha)
      THEN {Run(cs, Error(404, "Latest commit SHA not found"))}
      ELSE gh_fetch_tree(cs)
        : c \in Commits}
      : b \in ResolveBranch(r.branch)}

---------------------------------------------------------------------------
(* gl_interacter: the views.                                               *)

gl_get_mr_content(r) ==
  IF ~Truthy(r.repo) \/ ~Truthy(r.num)
  THEN {Run(<<>>, Error(400, "Missing project_id or mr_iid"))}
  ELSE UNION {
    LET c1 == Call("mr", "GET", Absent, a) IN
    IF upstream_failed(a.status)
    THEN {Run(<<c1>>, Error(a.status, "Failed to fetch MR info"))}
    ELSE IF ~a.body.json
    THEN {Run(<<c1>>, Fault)}                  \* response.json() raises
    ELSE {LET c2 == Call("mr.changes", "GET", Absent, d) IN
          IF upstream_failed(d.status)
          THEN Run(<<c1, c2>>, Error(d.status, "Failed to fetch MR diffs"))
          ELSE IF ~d.body.json
          THEN Run(<<c1, c2>>, Fault)
          ELSE Run(<<c1, c2>>,
                   Success({"title", "description", "source_branch",
                            "target_branch", "diffs"}))
            : d \in Resources}
      : a \in Resources}

gl_get_file_content(r) ==
  IF ~Truthy(r.repo) \/ ~Truthy(r.file_path)
  THEN {Run(<<>>, Error(400, "Missing project_id or file_path"))}
  ELSE UNION {
    IF ~b.found
    THEN {NoBranch(b)}
    ELSE {LET cs == Append(b.calls, Call("file.raw", "GET", b.branch, f)) IN
          IF upstream_failed(f.status)
          THEN Run(cs, Error(f.status, "Failed to fetch file content"))
          ELSE Run(cs, Reply("json", 200, {"content"}, 0, "", f.body.content,
                             <<>>, <<>>))
            : f \in RawFiles}
      : b \in ResolveBranch(r.branch)}

gl_get_issue_info(r) ==
  IF ~Truthy(r.repo) \/ ~Truthy(r.num)
  THEN {Run(<<>>, Error(400, "Missing project_id or issue_iid"))}
  ELSE {LET cs == <<Call("issue", "GET", Absent, a)>> IN
        IF upstream_failed(a.status)
        THEN Run(cs, Error(a.status, "Failed to fetch issue info"))
        ELSE IF ~a.body.json
        THEN Run(cs, Fault)
        ELSE Run(cs, Success({"title", "description"}))
          : a \in Resources}

gl_submit_mr_comment(r) ==
  IF ~Truthy(token)
  THEN {Run(<<>>, Error(401, "GitLab access token is not set"))}
  ELSE IF ~Truthy(r.repo) \/ ~Truthy(r.num) \/ ~Truthy(r.comment)
  THEN {Run(<<>>, Error(400, "Missing required parameters"))}
  ELSE {LET cs == <<Call("note", "POST", Absent, a)>> IN
        IF comment_failed(a.status)
        THEN Run(cs, Error(a.status, "Failed to create comment"))
        ELSE Run(cs, Reply("json", 201, {"message"}, 0,
                           "Comment created successfully", Absent, <<>>, <<>>))
          : a \in Created}

gl_get_repo_structure(r) ==
  IF ~Truthy(r.repo)
  THEN {Run(<<>>, Error(400, "Missing project_id"))}
  ELSE UNION {
    IF ~b.found
    THEN {NoBranch(b)}
    ELSE {LET cs == Append(b.calls, Call("tree", "GET", b.branch, t)) IN
          IF upstream_failed(t.status)
          THEN Run(cs, Error(t.status, "Failed to get repository structure"))
          ELSE IF ~t.body.json
          THEN Run(cs, Fault)
          ELSE Run(cs, Structure(t.body.tree))
            : t \in GitTrees}
      : b \in ResolveBranch(r.branch)}

---------------------------------------------------------------------------
(* The process.  A request is served as a whole by its route; the request  *)
(* context is then torn down and the next request is taken.                *)

Init ==
  /\ svc \in {"gh", "gl"}
  /\ RHINO_API_KEY \in Keys
  /\ token \in Tokens
  /\ req = NoReq
  /\ calls = <<>>
  /\ resp = NoResp

Serve(service, r, view) ==
  /\ svc = service
  /\ req = NoReq
  /\ \E run \in require_api_key(r, view) :
       /\ req' = r
       /\ calls' = run.calls
       /\ resp' = run.resp
  /\ UNCHANGED <<svc, RHINO_API_KEY, token>>

gh_pr_content ==
  \E h \in Headers, repo \in Repos, n \in Nums :
    LET r == Request("pr_content", h, repo, n, Absent, Absent, Absent)
    IN Serve("gh", r, gh_get_pr_content(r))

gh_file_content ==
  \E h \in Headers, repo \in Repos, p \in Paths, b \in Branches :
    LET r == Request("file_content", h, repo, Absent, p, b, Absent)
    IN Serve("gh", r, gh_get_file_content(r))

gh_issue_info ==
  \E h \in Headers, repo \in Repos, n \in Nums :
    LET r == Request("issue_info", h, repo, n, Absent, Absent, Absent)
    IN Serve("gh", r, gh_get_issue_info(r))

gh_submit_comment ==
  \E h \in Headers, repo \in Repos, n \in Nums, c \in Comments :
    LET r == Request("submit_pr_comment", h, repo, n, Absent, Absent, c)
    IN Serve("gh", r, gh_submit_pr_comment(r))

gh_repo_structure ==
  \E h \in Headers, repo \in Repos, b \in Branches :
    LET r == Request("repo_structure", h, repo, Absent, Absent, b, Absent)
    IN Serve("gh", r, gh_get_repo_structure(r))

gl_mr_content ==
  \E h \in Headers, repo \in Repos, n \in Nums :
    LET r == Request("mr_content", h, repo, n, Absent, Absent, Absent)
    IN Serve("gl", r, gl_get_mr_content(r))

gl_file_content ==
  \E h \in Headers, repo \in Repos, p \in Paths, b \in Branches :
    LET r == Request("file_content", h, repo, Absent, p, b, Absent)
    IN Serve("gl", r, gl_get_file_content(r))

gl_issue_info ==
  \E h \in Headers, repo \in Repos, n \in Nums :
    LET r == Request("issue_info", h, repo, n, Absent, Absent, Absent)
    IN Serve("gl", r, gl_get_issue_info(r))

gl_submit_comment ==
  \E h \in Headers, repo \in Repos, n \in Nums, c \in Comments :
    LET r == Request("submit_mr_comment", h, repo, n, Absent, Absent, c)
    IN Serve("gl", r, gl_submit_mr_comment(r))

gl_repo_structure ==
  \E h \in Headers, repo \in Repos, b \in Branches :
    LET r == Request("repo_structure", h, repo, Absent, Absent, b, Absent)
    IN Serve("gl", r, gl_get_repo_structure(r))

\* the reply is sent and the request context discarded
Teardown ==
  /\ req /= NoReq
  /\ req' = NoReq
  /\ calls' = <<>>
  /\ resp' = NoResp
  /\ UNCHANGED <<svc, RHINO_API_KEY, token>>

Next ==
  \/ gh_pr_content
  \/ gh_file_content
  \/ gh_issue_info
  \/ gh_submit_comment
  \/ gh_repo_structure
  \/ gl_mr_content
  \/ gl_file_content
  \/ gl_issue_info
  \/ gl_submit_comment
  \/ gl_repo_structure
  \/ Teardown

Spec == Init /\ [][Next]_vars

---------------------------------------------------------------------------
(* Vocabulary of the properties.                                           *)

Served == resp.kind /= "none"

\* the header is present, non-empty and equal to the configured secret
KeyAccepted ==
  req.apikey.set /\ req.apikey.v /= <<>> /\ req.apikey = RHINO_API_KEY

IsProbe(c) == c.op = "branch"
ResourceCalls == SelectSeq(calls, LAMBDA c : ~IsProbe(c))

IsSubmit == req.endpoint \in {"submit_pr_comment", "submit_mr_comment"}
IsGet == Served /\ ~IsSubmit

Required(r) ==
  CASE r.endpoint \in {"pr_content", "mr_content", "issue_info"} -> {r.repo, r.num}
    [] r.endpoint = "file_content" -> {r.repo, r.file_path}
    [] r.endpoint = "repo_structure" -> {r.repo}
    [] OTHER -> {r.repo, r.num, r.comment}

SuccessFields ==
  CASE req.endpoint = "pr_content" ->
         {"title", "body", "source_branch", "source_repo", "code_changes"}
    [] req.endpoint = "mr_content" ->
         {"title", "description", "source_branch", "target_branch", "diffs"}
    [] req.endpoint = "file_content" -> {"content"}
    [] req.endpoint = "issue_info" -> {"title", "description"}
    [] req.endpoint = "repo_structure" -> {"directories", "files"}
    [] OTHER -> {"message"}

IsSuccess == resp.kind = "json" /\ resp.keys = SuccessFields

Range(s) == {s[i] : i \in DOMAIN s}

---------------------------------------------------------------------------
\* C1: a request whose X-Api-Key header is absent, empty or different from
\* the configured secret ends 401, and no upstream call is made for it.
C1_Unauthorized ==
  (Served /\ (~req.apikey.set \/ req.apikey.v = <<>> \/ req.apikey /= RHINO_API_KEY))
    => (resp.kind = "abort" /\ resp.status = 401 /\ calls = <<>>)

\* an empty header against an empty configured secret is still rejected
C1_Witness ==
  /\ Served
  /\ req.apikey = Str(<<>>)
  /\ RHINO_API_KEY = Str(<<>>)
  /\ resp.status = 401

\* C2: an authorized request that omits a required parameter is answered 400
\* with no upstream call (branch probes included) issued before the answer.
C2_FailFast ==
  (Served /\ KeyAccepted /\ (\E p \in Required(req) : ~p.set))
    => (resp.status = 400 /\ calls = <<>>)

\* C3: branch resolution in file_content and repo_structure: a supplied
\* branch is used unchanged without probing; otherwise main is probed first,
\* master only after main answered non-200; the branch whose probe answered
\* 200 is the one fetched from; when both answer non-200 the reply is 404
\* 'No main or master branch found' and nothing is fetched.
C3_BranchResolution ==
  (Served /\ KeyAccepted /\ req.endpoint \in {"file_content", "repo_structure"})
    => LET probes == {i \in DOMAIN calls : IsProbe(calls[i])}
           UsesOnly(b) == \A i \in DOMAIN calls \ probes :
                             calls[i].ref.set => calls[i].ref = b
       IN /\ Truthy(req.branch) => (probes = {} /\ UsesOnly(req.branch))
          /\ (~Truthy(req.branch) /\ calls /= <<>>) => 1 \in probes
          /\ \A i \in probes :
               \/ i = 1 /\ calls[i].ref = MAIN
               \/ /\ i = 2 /\ calls[i].ref = MASTER
                  /\ 1 \in probes /\ calls[1].status /= 200
          /\ (1 \in probes /\ calls[1].status = 200)
               => (probes = {1} /\ UsesOnly(MAIN))
          /\ (2 \in probes /\ calls[2].status = 200) => UsesOnly(MASTER)
          /\ (1 \in probes /\ calls[1].status /= 200) => 2 \in probes
          /\ (2 \in probes /\ calls[2].status /= 200)
               => /\ resp = Error(404, "No main or master branch found")
                  /\ Len(calls) = 2

\* main answered non-200, master 200, and the resource is fetched from master
C3_Witness ==
  /\ Served
  /\ ~Truthy(req.branch)
  /\ Len(calls) = 3
  /\ calls[1].status = 404
  /\ calls[2].status = 200
  /\ calls[3].ref = MASTER

C5_Sequential ==
  LET R == ResourceCalls
      first == CASE req.endpoint = "pr_content" -> "pull"
                 [] req.endpoint = "mr_content" -> "mr"
                 [] OTHER -> "commit"
      second == CASE req.endpoint = "pr_content" -> "pull.diff"
                  [] req.endpoint = "mr_content" -> "mr.changes"
                  [] OTHER -> "tree"
  IN (/\ Served
      /\ \/ req.endpoint \in {"pr_content", "mr_content"}
         \/ svc = "gh" /\ req.endpoint = "repo_structure")
       => /\ Len(R) <= 2
          /\ Len(R) >= 1 => R[1].op = first
          /\ Len(R) = 2 => (R[2].op = second /\ R[1].status = 200)
          /\ IsSuccess => (Len(R) = 2 /\ R[1].status = 200 /\ R[2].status = 200)

\* the first call answered 200, the second failed, and the reply is that failure
C5_Witness ==
  /\ Served
  /\ req.endpoint \in {"pr_content", "mr_content"}
  /\ Len(calls) = 2
  /\ calls[1].status = 200
  /\ calls[2].status = 500
  /\ resp.code = 500
  /\ ~IsSuccess

\* C6: every reply is a JSON object carrying the endpoint's success fields or
\* both a code and a message field.
C6_UniformReply ==
  Served
    => /\ resp.kind = "json"
       /\ \/ SuccessFields \subseteq resp.keys
          \/ {"code", "message"} \subseteq resp.keys

\* C7: with the provider token absent, an authorized request makes no
\* upstream call, and is answered 401 -- by comment submission before its
\* parameters are looked at, by the other endpoints whenever they would
\* have called the provider.
C7_MissingToken ==
  (Served /\ KeyAccepted /\ ~Truthy(token))
    => /\ calls = <<>>
       /\ (IsSubmit \/ \A p \in Required(req) : Truthy(p)) => resp.status = 401

\* C8: in the GET handlers a resource call answered with a status s other
\* than 200 (404 included) gives outward code s and HTTP status s, and an
\* outward 404 after a resource call only comes from a provider 404.
C8_ErrorMapping ==
  (IsGet /\ KeyAccepted)
    => LET R == ResourceCalls
       IN /\ \A i \in DOMAIN R :
               R[i].status /= 200
                 => (resp.code = R[i].status /\ resp.status = R[i].status)
          /\ (R /= <<>> /\ resp.status = 404)
               => \E i \in DOMAIN R : R[i].status = 404

---------------------------------------------------------------------------
(* Repository-structure partition.                                         *)

\* the paths of the entries of one type, in the listing's order
PathsOfType(items, ty) ==
  LET sel == SelectSeq(items, LAMBDA e : e.type = ty)
  IN [i \in 1..Len(sel) |-> sel[i].path]

IsStructure == Served /\ resp.kind = "json" /\ resp.keys = {"directories", "files"}

\* the provider listing the reply was built from
Listing == calls[Len(calls)].body.tree

\* C9 as stated: directories and files are the tree paths and the blob paths
\* in the provider's order, and no path is in both lists.
C9_PartitionDisjoint ==
  IsStructure
    => /\ resp.directories = PathsOfType(Listing, "tree")
       /\ resp.files = PathsOfType(Listing, "blob")
       /\ Range(resp.directories) \cap Range(resp.files) = {}

\* C9 amended: directories and files are the tree paths and the blob paths
\* in the provider's order, entries of other types are in neither, and a
\* path is in both lists only when the provider lists it under both types.
C9_Partition ==
  IsStructure
    => /\ resp.directories = PathsOfType(Listing, "tree")
       /\ resp.files = PathsOfType(Listing, "blob")
       /\ Len(resp.directories) + Len(resp.files)
            = Cardinality({i \in DOMAIN Listing : Listing[i].type \in {"tree", "blob"}})
       /\ \A p \in Range(resp.directories) \cap Range(resp.files) :
            /\ [type |-> "tree", path |-> p] \in Range(Listing)
            /\ [type |-> "blob", path |-> p] \in Range(Listing)

\* a listing of an entry of another type and a blob has been split
C9_Witness ==
  /\ IsStructure
  /\ Len(Listing) = 2
  /\ Listing[1].type = "commit"
  /\ Listing[2].type = "blob"
  /\ resp.files = <<Listing[2].path>>
  /\ resp.directories = <<>>

---------------------------------------------------------------------------
(* GitHub file content.                                                    *)

\* str.encode('utf-8') of a sequence of code points
utf8_encode_cp(cp) ==
  IF cp < 128 THEN <<cp>>
  ELSE IF cp < 2048 THEN <<192 + (cp \div 64), 128 + (cp % 64)>>
  ELSE IF cp < 65536
  THEN <<224 + (cp \div 4096), 128 + ((cp \div 64) % 64), 128 + (cp % 64)>>
  ELSE <<240 + (cp \div 262144), 128 + ((cp \div 4096) % 64),
         128 + ((cp \div 64) % 64), 128 + (cp % 64)>>

RECURSIVE utf8_encode(_)
utf8_encode(text) ==
  IF text = <<>> THEN <<>>
  ELSE utf8_encode_cp(text[1]) \o utf8_encode(Tail(text))

\* Well-formed UTF-8 (Unicode, table 3-7): the bytes split into well-formed
\* byte sequences.
WellFormedAt(b, i, n) ==
  /\ i + n - 1 <= Len(b)
  /\ \/ n = 1 /\ b[i] <= 127
     \/ n = 2 /\ b[i] \in 194..223 /\ b[i + 1] \in 128..191
     \/ /\ n = 3 /\ b[i + 1] \in 128..191 /\ b[i + 2] \in 128..191
        /\ \/ b[i] = 224 /\ b[i + 1] >= 160
           \/ b[i] \in 225..236
           \/ b[i] = 237 /\ b[i + 1] <= 159
           \/ b[i] \in 238..239
     \/ /\ n = 4 /\ b[i + 1] \in 128..191 /\ b[i + 2] \in 128..191
        /\ b[i + 3] \in 128..191
        /\ \/ b[i] = 240 /\ b[i + 1] >= 144
           \/ b[i] \in 241..243
           \/ b[i] = 244 /\ b[i + 1] <= 143

RECURSIVE WellFormedFrom(_, _)
WellFormedFrom(b, i) ==
  \/ i = Len(b) + 1
  \/ \E n \in 1..4 : WellFormedAt(b, i, n) /\ WellFormedFrom(b, i + n)

WellFormedUtf8(b) == WellFormedFrom(b, 1)

\* a 200 answer to the contents fetch whose body is a JSON object
FileFetched ==
  /\ Served /\ svc = "gh" /\ req.endpoint = "file_content"
  /\ calls /= <<>>
  /\ calls[Len(calls)].op = "contents"
  /\ calls[Len(calls)].status = 200
  /\ calls[Len(calls)].body.json

\* C10: GitHub file_content after a 200 fetch: a base64 `content` that
\* decodes to well-formed UTF-8 gives {content: <that text>} with status 200;
\* one that decodes to other bytes gives an error reply with status 500, not
\* a fault; an absent `content` gives 500 'No content found in the response'.
C10_FileDecode ==
  FileFetched
    => LET content == calls[Len(calls)].body.content
           raw == b64decode(content.v)
       IN /\ ~content.set
               => resp = Error(500, "No content found in the response")
          /\ (content.set /\ raw.ok /\ WellFormedUtf8(raw.v))
               => /\ resp.kind = "json" /\ resp.status = 200
                  /\ resp.keys = {"content"}
                  /\ resp.content.set
                  /\ utf8_encode(resp.content.v) = raw.v
          /\ (content.set /\ raw.ok /\ ~WellFormedUtf8(raw.v))
               => (resp.kind = "json" /\ resp.status = 500)

\* a payload holding a two-byte character has been decoded and returned
C10_Witness ==
  /\ FileFetched
  /\ resp.keys = {"content"}
  /\ \E i \in DOMAIN resp.content.v : resp.content.v[i] >= 128

=============================================================================
